---- MODULE Spec2Model ----
(***************************************************************************)
(* Model of the regular-expression engine of src/main.py: Tokenizer,       *)
(* the AST node classes, Parser and RegexEngine.                           *)
(*                                                                         *)
(* A pattern and a text are sequences of one-character strings.  A token   *)
(* is a record [kind, value]: kind "SYM" for the bare symbol the code      *)
(* returns for one of ( ) * + ? . , kind "CHAR" for the tuple              *)
(* ('CHAR', c), kind "NONE" for None.  An AST node is a record             *)
(* [kind, char, kids]: kids holds the one child of a Star/Plus/Question    *)
(* node and the children list of a Sequence node.                          *)
(*                                                                         *)
(* A call either returns or raises IndexError.  The outcome of a match is  *)
(* a record [raised, pos], of next_token a record [token, position] whose  *)
(* token has kind "RAISE" when the call raised, of a parser function a     *)
(* record [raised, node, position], of RegexEngine.match a record          *)
(* [raised, value].                                                        *)
(***************************************************************************)
EXTENDS Integers, Sequences, FiniteSets, TLC

VARIABLES pattern, text, result, pc, calls, position, pstack, ast, mstack, ret

vars == <<pattern, text, result, pc, calls, position, pstack, ast, mstack, ret>>

(***************************************************************************)
(* Bounds of the explored inputs.                                          *)
(***************************************************************************)
MaxPatLen == 2
MaxLitLen == 3
MaxSuffixLen == 1
MaxTextLen == 4
MaxStepPatLen == 2
MaxStepTextLen == 2
MaxCalls == 2

Literals == {"a", "b"}
Quantifiers == {"*", "+", "?"}
PatternChars == {"a", "b", "(", ")", "*", "+", "?", ".", "^", "$", "|"}
TextChars == {"a", "b", "*"}
StepTextChars == {"a", "b"}

SeqsUpTo(S, n) == UNION {[1..k -> S] : k \in 0..n}

(***************************************************************************)
(* Python values.                                                          *)
(***************************************************************************)
IndexError == "IndexError"
None == [kind |-> "NONE", value |-> ""]
NoChar == "None"
Fail == -1

\* The outcome of a match call: the position returned, or the exception.
Returned(p) == [raised |-> FALSE, pos |-> p]
Raised == [raised |-> TRUE, pos |-> Fail]

\* s[i] of Python, 0-based, a negative index counting from the end.
Index(s, i) ==
    IF i >= 0 /\ i < Len(s) THEN s[i + 1]
    ELSE IF i < 0 /\ -i <= Len(s) THEN s[Len(s) + i + 1]
    ELSE IndexError

(***************************************************************************)
(* Tokenizer                                                               *)
(***************************************************************************)
Symbols == {"(", ")", "*", "+", "?", "."}

\* Tokenizer.next_token: the token and the cursor after it; where the read
\* of the pattern is out of range, the exception and the cursor unmoved.
NextToken(pat, pos) ==
    IF pos >= Len(pat)
    THEN [token |-> None, position |-> pos]
    ELSE LET char == Index(pat, pos)
         IN  IF char = IndexError
             THEN [token |-> [kind |-> "RAISE", value |-> IndexError], position |-> pos]
             ELSE IF char \in Symbols
             THEN [token |-> [kind |-> "SYM", value |-> char], position |-> pos + 1]
             ELSE [token |-> [kind |-> "CHAR", value |-> char], position |-> pos + 1]

\* Tokenizer.peek: the next pattern character, the cursor unmoved; the value
\* IndexError where the read of the pattern is out of range.
PeekUnchecked(pat, pos) == Index(pat, pos)

Peek(pat, pos) ==
    IF pos < Len(pat) THEN Index(pat, pos) ELSE NoChar

(***************************************************************************)
(* AST nodes                                                               *)
(***************************************************************************)
CharNode(char) == [kind |-> "Char", char |-> char, kids |-> <<>>]
DotNode == [kind |-> "Dot", char |-> "", kids |-> <<>>]
StartAnchorNode == [kind |-> "Start", char |-> "", kids |-> <<>>]
EndAnchorNode == [kind |-> "End", char |-> "", kids |-> <<>>]
StarNode(child) == [kind |-> "Star", char |-> "", kids |-> <<child>>]
PlusNode(child) == [kind |-> "Plus", char |-> "", kids |-> <<child>>]
QuestionNode(child) == [kind |-> "Question", char |-> "", kids |-> <<child>>]
SequenceNode(children) == [kind |-> "Seq", char |-> "", kids |-> children]
NoNode == [kind |-> "None", char |-> "", kids |-> <<>>]

LeafKinds == {"Char", "Dot", "Start", "End"}

\* CharNode.match
CharNodeMatchAnyChar(char, txt, pos) ==
    IF pos < Len(txt) THEN Returned(pos + 1) ELSE Returned(Fail)

CharNodeMatchNoAdvance(char, txt, pos) ==
    IF pos < Len(txt)
    THEN LET c == Index(txt, pos)
         IN  IF c = IndexError THEN Raised
             ELSE IF c = char \/ char = "." THEN Returned(pos)
             ELSE Returned(Fail)
    ELSE Returned(Fail)

CharNodeMatch(char, txt, pos) ==
    IF pos < Len(txt)
    THEN LET c == Index(txt, pos)
         IN  IF c = IndexError THEN Raised
             ELSE IF c = char \/ char = "." THEN Returned(pos + 1)
             ELSE Returned(Fail)
    ELSE Returned(Fail)

\* DotNode.match
DotNodeMatch(txt, pos) ==
    IF pos < Len(txt) THEN Returned(pos + 1) ELSE Returned(Fail)

\* EndAnchorNode.match
EndAnchorNodeMatch(txt, pos) ==
    IF pos = Len(txt) THEN Returned(pos) ELSE Returned(Fail)

\* StartAnchorNode.match
StartAnchorNodeMatchAtEnd(txt, pos) == EndAnchorNodeMatch(txt, pos)

StartAnchorNodeMatch(txt, pos) ==
    IF pos = 0 THEN Returned(pos) ELSE Returned(Fail)

\* The match method of a node that has no child.
LeafMatch(node, txt, pos) ==
    CASE node.kind = "Char" -> CharNodeMatch(node.char, txt, pos)
      [] node.kind = "Dot" -> DotNodeMatch(txt, pos)
      [] node.kind = "Start" -> StartAnchorNodeMatch(txt, pos)
      [] node.kind = "End" -> EndAnchorNodeMatch(txt, pos)

(***************************************************************************)
(* Parser                                                                  *)
(***************************************************************************)
\* token[1] of a tuple token, the token itself otherwise.
TokenValue(token) == token.value

\* The sequence terminators of parse_sequence: token_value in '|)'.
IsTerminator(token_value) == token_value \in {"|", ")"}

\* What a parser function gives back: a node and the cursor, or the
\* exception with the cursor where it was raised.
Parsed(node, pos) == [raised |-> FALSE, node |-> node, position |-> pos]
ParseRaised(pos) == [raised |-> TRUE, node |-> NoNode, position |-> pos]

\* The recursive call's result as the caller takes it: the cursor moves past
\* a ')' that follows, and the nested sequence is the child that is added.
GroupItemSkipToClose(child, pat, pos) ==
    LET closes == {i \in pos..(Len(pat) - 1) : Index(pat, i) = ")"}
    IN  IF Peek(pat, pos) = IndexError THEN ParseRaised(pos)
        ELSE Parsed(child,
                    IF closes = {} THEN pos
                    ELSE 1 + CHOOSE i \in closes : \A j \in closes : i <= j)

GroupItemQuantified(child, pat, pos) ==
    LET p == IF Peek(pat, pos) = ")" THEN pos + 1 ELSE pos
    IN  IF Peek(pat, pos) = IndexError \/ Peek(pat, p) = IndexError
        THEN ParseRaised(pos)
        ELSE IF Peek(pat, p) = "*" THEN Parsed(StarNode(child), p + 1)
        ELSE Parsed(child, p)

GroupItem(child, pat, pos) ==
    LET next == Peek(pat, pos)
    IN  IF next = IndexError THEN ParseRaised(pos)
        ELSE IF next = ")" THEN Parsed(child, pos + 1)
        ELSE Parsed(child, pos)

\* The node parse_sequence adds for the modifier that peek() gave after a
\* CharNode.
Modified(char_node, modifier, pos) ==
    CASE modifier = IndexError -> ParseRaised(pos)
      [] modifier = "*" -> Parsed(StarNode(char_node), pos + 1)
      [] modifier = "+" -> Parsed(PlusNode(char_node), pos + 1)
      [] modifier = "?" -> Parsed(QuestionNode(char_node), pos + 1)
      [] OTHER -> Parsed(char_node, pos)

\* The branches of parse_sequence for a token that neither ends the sequence
\* nor opens a group: the node added and the cursor after it.
ParseItemDotQuantified(token_value, pat, pos) ==
    CASE token_value = "." -> Modified(DotNode, Peek(pat, pos), pos)
      [] token_value = "^" -> Parsed(StartAnchorNode, pos)
      [] token_value = "$" -> Parsed(EndAnchorNode, pos)
      [] OTHER -> Modified(CharNode(token_value), Peek(pat, pos), pos)

ParseItem(token_value, pat, pos) ==
    CASE token_value = "." -> Parsed(DotNode, pos)
      [] token_value = "^" -> Parsed(StartAnchorNode, pos)
      [] token_value = "$" -> Parsed(EndAnchorNode, pos)
      [] OTHER -> Modified(CharNode(token_value), Peek(pat, pos), pos)

RECURSIVE ParseSequenceLoop(_, _, _)
\* The while loop of parse_sequence from cursor pos with the children added
\* so far: the sequence node returned and the cursor at the return, or the
\* exception of the tokenizer.
ParseSequenceLoop(pat, pos, children) ==
    LET nt == NextToken(pat, pos)
        token == nt.token
        token_value == TokenValue(token)
    IN  IF token.kind = "RAISE"
        THEN ParseRaised(nt.position)
        ELSE IF token = None
        THEN Parsed(SequenceNode(children), nt.position)
        ELSE IF IsTerminator(token_value)
        THEN Parsed(SequenceNode(children), nt.position)
        ELSE IF token_value = "("
        THEN LET sub == ParseSequenceLoop(pat, nt.position, <<>>)
             IN  IF sub.raised THEN sub
                 ELSE LET item == GroupItem(sub.node, pat, sub.position)
                      IN  IF item.raised THEN item
                          ELSE ParseSequenceLoop(pat, item.position,
                                                 Append(children, item.node))
        ELSE LET item == ParseItem(token_value, pat, nt.position)
             IN  IF item.raised THEN item
                 ELSE ParseSequenceLoop(pat, item.position,
                                        Append(children, item.node))

\* Parser.parse_sequence on a tokenizer whose cursor is pos.
ParseSequence(pat, pos) == ParseSequenceLoop(pat, pos, <<>>)

\* Parser.parse on a fresh tokenizer.
Parse(pat) == ParseSequence(pat, 0)

(***************************************************************************)
(* Matching                                                                *)
(***************************************************************************)
RECURSIVE NodeMatch(_, _, _)
RECURSIVE RepeatLoop(_, _, _)
RECURSIVE SequenceLoop(_, _, _, _)

\* The while True loop of StarNode.match and of PlusNode.match.
RepeatLoop(child, txt, match_pos) ==
    LET next == NodeMatch(child, txt, match_pos)
    IN  IF next.raised THEN Raised
        ELSE IF next.pos = Fail THEN Returned(match_pos)
        ELSE RepeatLoop(child, txt, next.pos)

\* StarNode.match
StarNodeMatchLazy(child, txt, pos) == Returned(pos)

StarNodeMatch(child, txt, pos) == RepeatLoop(child, txt, pos)

\* PlusNode.match
PlusNodeMatchOptional(child, txt, pos) ==
    LET first == NodeMatch(child, txt, pos)
    IN  IF first.raised THEN Raised
        ELSE IF first.pos = Fail THEN Returned(pos)
        ELSE RepeatLoop(child, txt, first.pos)

PlusNodeMatch(child, txt, pos) ==
    LET first == NodeMatch(child, txt, pos)
    IN  IF first.raised THEN Raised
        ELSE IF first.pos = Fail THEN Returned(Fail)
        ELSE RepeatLoop(child, txt, first.pos)

\* QuestionNode.match
QuestionNodeMatch(child, txt, pos) ==
    LET next == NodeMatch(child, txt, pos)
    IN  IF next.raised THEN Raised
        ELSE IF next.pos # Fail THEN Returned(next.pos)
        ELSE Returned(pos)

\* The for loop of SequenceNode.match from child i at current_pos.
SequenceLoop(children, i, txt, current_pos) ==
    IF i > Len(children) THEN Returned(current_pos)
    ELSE LET next == NodeMatch(children[i], txt, current_pos)
         IN  IF next.raised THEN Raised
             ELSE IF next.pos = Fail THEN Returned(Fail)
             ELSE SequenceLoop(children, i + 1, txt, next.pos)

\* SequenceNode.match
SequenceNodeMatch(children, txt, pos) == SequenceLoop(children, 1, txt, pos)

\* node.match(text, pos), dispatched on the node's class.
NodeMatch(node, txt, pos) ==
    CASE node.kind \in LeafKinds -> LeafMatch(node, txt, pos)
      [] node.kind = "Star" -> StarNodeMatch(node.kids[1], txt, pos)
      [] node.kind = "Plus" -> PlusNodeMatch(node.kids[1], txt, pos)
      [] node.kind = "Question" -> QuestionNodeMatch(node.kids[1], txt, pos)
      [] node.kind = "Seq" -> SequenceNodeMatch(node.kids, txt, pos)

(***************************************************************************)
(* RegexEngine                                                             *)
(***************************************************************************)
\* RegexEngine(pat).match(txt): the boolean returned, or the exception.
RegexEngineMatch(pat, txt) ==
    LET parsed == Parse(pat)
    IN  IF parsed.raised THEN [raised |-> TRUE, value |-> FALSE]
        ELSE LET end == NodeMatch(parsed.node, txt, 0)
             IN  IF end.raised THEN [raised |-> TRUE, value |-> FALSE]
                 ELSE [raised |-> FALSE, value |-> (end.pos = Len(txt))]

(***************************************************************************)
(* The inputs explored.                                                    *)
(***************************************************************************)
\* Patterns of ordinary literals and the wildcard.
LitDotPatterns == SeqsUpTo(Literals \cup {"."}, MaxLitLen)
\* A literal, a quantifier, a literal.
QuantPatterns == {<<x, q, y>> : x \in Literals, q \in Quantifiers, y \in Literals}
\* x*x followed by a suffix of literals.
StarSelfPatterns ==
    {<<x, "*", x>> \o s : x \in Literals, s \in SeqsUpTo(Literals, MaxSuffixLen)}
\* ^w and w$ for a word w of literals.
AnchorPatterns ==
    {<<"^">> \o w : w \in SeqsUpTo(Literals, MaxLitLen)}
        \cup {w \o <<"$">> : w \in SeqsUpTo(Literals, MaxLitLen)}
\* The wildcard followed by a quantifier character.
DotQuantPatterns == {<<".", q>> : q \in Quantifiers}
\* (x|y)z and (x)z.
GroupPatterns ==
    {<<"(", x, "|", y, ")", z>> : x \in Literals, y \in Literals, z \in Literals}
        \cup {<<"(", x, ")", z>> : x \in Literals, z \in Literals}
\* (xy)*
GroupStarPatterns == {<<"(", x, y, ")", "*">> : x \in Literals, y \in Literals}
\* ( followed by a word of literals, never closed.
OpenGroupPatterns == {<<"(">> \o w : w \in SeqsUpTo(Literals, MaxLitLen)}
\* Every pattern over the whole alphabet, up to a length.
AllPatterns == SeqsUpTo(PatternChars, MaxPatLen)

Patterns ==
    AllPatterns \cup LitDotPatterns \cup QuantPatterns \cup StarSelfPatterns
        \cup AnchorPatterns \cup DotQuantPatterns \cup GroupPatterns
        \cup GroupStarPatterns \cup OpenGroupPatterns

Texts == SeqsUpTo(TextChars, MaxTextLen)

(***************************************************************************)
(* The engine as a state machine whose step is one whole match call.       *)
(***************************************************************************)
\* RegexEngine.__init__: the engine holds its pattern; no call was made.
Init ==
    /\ pattern \in Patterns
    /\ text = <<>>
    /\ result = FALSE
    /\ pc = "idle"
    /\ calls = 0
    /\ position = 0
    /\ pstack = <<>>
    /\ ast = NoNode
    /\ mstack = <<>>
    /\ ret = <<>>

\* RegexEngine.match(t) on the engine just built, start to return.
Match(t) ==
    /\ pc = "idle"
    /\ text' = t
    /\ LET outcome == RegexEngineMatch(pattern, t)
       IN  IF outcome.raised
           THEN pc' = "error" /\ result' = result
           ELSE pc' = "done" /\ result' = outcome.value
    /\ UNCHANGED <<pattern, calls, position, pstack, ast, mstack, ret>>

Next == \E t \in Texts : Match(t)

Spec == Init /\ [][Next]_vars

(***************************************************************************)
(* Properties of a whole match call.                                       *)
(***************************************************************************)
Done == pc = "done"

IsLitDot(p) == \A i \in 1..Len(p) : p[i] \in Literals \cup {"."}
IsLiteral(p) == \A i \in 1..Len(p) : p[i] \in Literals

\* n copies of the word w.
RECURSIVE Repeat(_, _)
Repeat(w, n) == IF n = 0 THEN <<>> ELSE w \o Repeat(w, n - 1)

\* C1: a pattern of ordinary literals and wildcards matches exactly the texts
\* of its own length that agree with it at every position that is not a
\* wildcard; without a wildcard, exactly the text equal to the pattern.
C1_LiteralWildcard ==
    (Done /\ IsLitDot(pattern)) =>
        /\ result = (/\ Len(text) = Len(pattern)
                     /\ \A i \in 1..Len(pattern) :
                            pattern[i] = "." \/ pattern[i] = text[i])
        /\ IsLiteral(pattern) => (result = (text = pattern))

C1_Witness ==
    /\ Done
    /\ pattern = <<"a", ".", "b">>
    /\ text = <<"a", "*", "b">>
    /\ result = TRUE

\* C2: for distinct literals x and y, x*y matches exactly x^n y with n >= 0,
\* x+y exactly x^n y with n >= 1, and x?y exactly y and xy.
C2_Quantifiers ==
    \A x \in Literals : \A y \in Literals \ {x} :
        /\ (Done /\ pattern = <<x, "*", y>>) =>
               (result = (\E n \in 0..MaxTextLen + 1 : text = Repeat(<<x>>, n) \o <<y>>))
        /\ (Done /\ pattern = <<x, "+", y>>) =>
               (result = (\E n \in 1..MaxTextLen + 1 : text = Repeat(<<x>>, n) \o <<y>>))
        /\ (Done /\ pattern = <<x, "?", y>>) =>
               (result = (text \in {<<y>>, <<x, y>>}))

C2_Witness ==
    /\ Done
    /\ pattern = <<"a", "+", "b">>
    /\ text = <<"a", "a", "b">>
    /\ result = TRUE

\* C3 as stated: the pattern .* matches exactly the texts of length 1, like
\* the single wildcard.
C3_Original ==
    (Done /\ pattern = <<".", "*">>) =>
        /\ result = (Len(text) = 1)
        /\ result = RegexEngineMatch(<<".">>, text).value

\* C3 as amended: a quantifier character after the wildcard is parsed as a
\* literal of its own, so the pattern .q matches exactly the texts of length
\* 2 whose second character is q.
C3_DotQuantifierLiteral ==
    \A q \in Quantifiers :
        (Done /\ pattern = <<".", q>>) =>
            (result = (Len(text) = 2 /\ text[2] = q))

C3_Witness ==
    /\ Done
    /\ pattern = <<".", "*">>
    /\ text = <<"a", "*">>
    /\ result = TRUE

\* C4 as stated: (x|y)z matches exactly what (x)z matches, the text xz.
C4_Original ==
    \A x \in Literals, y \in Literals, z \in Literals :
        (Done /\ pattern = <<"(", x, "|", y, ")", z>>) =>
            /\ result = (text = <<x, z>>)
            /\ result = RegexEngineMatch(<<"(", x, ")", z>>, text).value

\* C4 as amended: the | ends the group only; the characters up to the ) are
\* parsed into the enclosing sequence and the ) then ends that sequence, so
\* (x|y)z matches exactly the text xy, and (x)z exactly xz.
C4_GroupAlternation ==
    \A x \in Literals, y \in Literals, z \in Literals :
        /\ (Done /\ pattern = <<"(", x, "|", y, ")", z>>) =>
               (result = (text = <<x, y>>))
        /\ (Done /\ pattern = <<"(", x, ")", z>>) =>
               (result = (text = <<x, z>>))

C4_Witness ==
    /\ Done
    /\ pattern = <<"(", "a", "|", "b", ")", "a">>
    /\ text = <<"a", "b">>
    /\ result = TRUE

\* C5: x*x followed by any suffix of literals matches no text.
C5_NoBacktracking ==
    \A x \in Literals :
        (/\ Done
         /\ Len(pattern) >= 3
         /\ SubSeq(pattern, 1, 3) = <<x, "*", x>>
         /\ IsLiteral(SubSeq(pattern, 4, Len(pattern)))) => (result = FALSE)

C5_Witness ==
    /\ Done
    /\ pattern = <<"a", "*", "a", "b">>
    /\ text = <<"a", "a", "b">>
    /\ result = FALSE

\* C6: for a word w of literals, ^w and w$ match exactly the text w.
C6_Anchors ==
    /\ (/\ Done
        /\ Len(pattern) >= 1
        /\ pattern[1] = "^"
        /\ IsLiteral(Tail(pattern))) => (result = (text = Tail(pattern)))
    /\ (/\ Done
        /\ Len(pattern) >= 1
        /\ pattern[Len(pattern)] = "$"
        /\ IsLiteral(SubSeq(pattern, 1, Len(pattern) - 1))) =>
           (result = (text = SubSeq(pattern, 1, Len(pattern) - 1)))

C6_Witness ==
    /\ Done
    /\ pattern = <<"^", "a", "b">>
    /\ text = <<"a", "b">>
    /\ result = TRUE

\* C7: (xy)* matches no text that is n >= 0 copies of xy.
C7_GroupNotRepeated ==
    \A x \in Literals, y \in Literals :
        (/\ Done
         /\ pattern = <<"(", x, y, ")", "*">>
         /\ \E n \in 0..MaxTextLen : text = Repeat(<<x, y>>, n)) => (result = FALSE)

C7_Witness ==
    /\ Done
    /\ pattern = <<"(", "a", "b", ")", "*">>
    /\ text = <<"a", "b", "a", "b">>
    /\ result = FALSE

(***************************************************************************)
(* The engine step by step: one step per iteration of the parser's loop    *)
(* and per call, loop iteration and return of a node's match.              *)
(*                                                                         *)
(* position is the cursor of the call's Tokenizer.  pstack holds, for each *)
(* active parse_sequence call, the children of its sequence_node so far.   *)
(* mstack holds the active match calls: node, the pos argument, cur (the   *)
(* current_pos or match_pos local) and idx (the next child of a Sequence,  *)
(* or 2 once a Plus has matched its child once).  ret is <<v>> when a      *)
(* match call has just returned v to the frame on top, <<>> otherwise.     *)
(***************************************************************************)
StepPatterns ==
    SeqsUpTo(PatternChars, MaxStepPatLen) \cup QuantPatterns
        \cup OpenGroupPatterns \cup GroupStarPatterns

StepTexts == SeqsUpTo(StepTextChars, MaxStepTextLen)

StepInit ==
    /\ pattern \in StepPatterns
    /\ text = <<>>
    /\ result = FALSE
    /\ pc = "idle"
    /\ calls = 0
    /\ position = 0
    /\ pstack = <<>>
    /\ ast = NoNode
    /\ mstack = <<>>
    /\ ret = <<>>

Frame(node, pos) == [node |-> node, pos |-> pos, cur |-> pos, idx |-> 1]

\* RegexEngine.match(t) up to the call of parser.parse(): a Tokenizer with
\* its cursor at 0, a Parser on it, and the empty root sequence.
EngineMatchSharedTokenizer(t) ==
    /\ pc \in {"idle", "done"}
    /\ calls < MaxCalls
    /\ calls' = calls + 1
    /\ text' = t
    /\ pstack' = <<<<>>>>
    /\ ast' = NoNode
    /\ mstack' = <<>>
    /\ ret' = <<>>
    /\ result' = FALSE
    /\ pc' = "parse"
    /\ UNCHANGED <<pattern, position>>

EngineMatch(t) ==
    /\ pc \in {"idle", "done"}
    /\ calls < MaxCalls
    /\ calls' = calls + 1
    /\ text' = t
    /\ position' = 0
    /\ pstack' = <<<<>>>>
    /\ ast' = NoNode
    /\ mstack' = <<>>
    /\ ret' = <<>>
    /\ result' = FALSE
    /\ pc' = "parse"
    /\ UNCHANGED pattern

\* An index out of range ends the call with an exception.
RaiseIndexError ==
    /\ pc' = "error"
    /\ UNCHANGED <<pattern, text, result, calls, position, pstack, ast, mstack, ret>>

\* parse_sequence returns with the cursor at pos: to RegexEngine.match, which
\* calls ast.match(text, 0), or to the parse_sequence that met the '('.
ParserReturn(pos) ==
    LET n == Len(pstack)
        node == SequenceNode(pstack[n])
    IN  IF n = 1
        THEN /\ ast' = node
             /\ pstack' = <<>>
             /\ position' = pos
             /\ mstack' = <<Frame(node, 0)>>
             /\ ret' = <<>>
             /\ pc' = "match"
             /\ UNCHANGED <<pattern, text, result, calls>>
        ELSE LET item == GroupItem(node, pattern, pos)
             IN  IF item.raised
                 THEN RaiseIndexError
                 ELSE /\ pstack' = [SubSeq(pstack, 1, n - 1) EXCEPT
                                       ![n - 1] = Append(@, item.node)]
                      /\ position' = item.position
                      /\ UNCHANGED <<pattern, text, result, pc, calls, ast, mstack, ret>>

\* next_token() is None: the loop breaks.
ParseEnd ==
    /\ pc = "parse"
    /\ LET nt == NextToken(pattern, position)
       IN  /\ nt.token = None
           /\ ParserReturn(nt.position)

\* The token is '|' or ')': the loop breaks.
ParseTerminator ==
    /\ pc = "parse"
    /\ LET nt == NextToken(pattern, position)
       IN  /\ nt.token # None
           /\ IsTerminator(TokenValue(nt.token))
           /\ ParserReturn(nt.position)

\* The token is '(': parse_sequence calls itself.
ParseGroupOpen ==
    /\ pc = "parse"
    /\ LET nt == NextToken(pattern, position)
       IN  /\ nt.token # None
           /\ TokenValue(nt.token) = "("
           /\ pstack' = Append(pstack, <<>>)
           /\ position' = nt.position
    /\ UNCHANGED <<pattern, text, result, pc, calls, ast, mstack, ret>>

\* Any other token: a node is added to the sequence; next_token() or
\* peek() raising ends the call.
ParseNode ==
    /\ pc = "parse"
    /\ LET nt == NextToken(pattern, position)
           token_value == TokenValue(nt.token)
       IN  /\ nt.token # None
           /\ ~IsTerminator(token_value)
           /\ token_value # "("
           /\ LET item == IF nt.token.kind = "RAISE"
                           THEN ParseRaised(nt.position)
                           ELSE ParseItem(token_value, pattern, nt.position)
                   n == Len(pstack)
               IN  IF item.raised
                   THEN RaiseIndexError
                   ELSE /\ pstack' = [pstack EXCEPT ![n] = Append(@, item.node)]
                        /\ position' = item.position
                        /\ UNCHANGED <<pattern, text, result, pc, calls, ast, mstack, ret>>

Top == mstack[Len(mstack)]

\* A match call begins, returns, or goes on with its locals updated.
CallMatch(stack, node, pos) ==
    [mstack |-> Append(stack, Frame(node, pos)), ret |-> <<>>]
ReturnMatch(stack, v) ==
    [mstack |-> SubSeq(stack, 1, Len(stack) - 1), ret |-> <<v>>]
ContinueMatch(stack, frame) ==
    [mstack |-> [stack EXCEPT ![Len(stack)] = frame], ret |-> <<>>]

\* SequenceNode.match, one step of the frame on top.
SequenceNodeStep(stack, r) ==
    LET top == stack[Len(stack)]
    IN  IF r = <<>>
        THEN IF top.idx > Len(top.node.kids)
             THEN ReturnMatch(stack, top.cur)
             ELSE CallMatch(stack, top.node.kids[top.idx], top.cur)
        ELSE IF r[1] = Fail
             THEN ReturnMatch(stack, Fail)
             ELSE ContinueMatch(stack, [top EXCEPT !.cur = r[1], !.idx = top.idx + 1])

\* StarNode.match, one step.
StarNodeStep(stack, r) ==
    LET top == stack[Len(stack)]
    IN  IF r = <<>>
        THEN CallMatch(stack, top.node.kids[1], top.cur)
        ELSE IF r[1] = Fail
             THEN ReturnMatch(stack, top.cur)
             ELSE ContinueMatch(stack, [top EXCEPT !.cur = r[1]])

\* PlusNode.match, one step.
PlusNodeStep(stack, r) ==
    LET top == stack[Len(stack)]
    IN  IF r = <<>>
        THEN CallMatch(stack, top.node.kids[1], top.cur)
        ELSE IF r[1] = Fail
             THEN ReturnMatch(stack, IF top.idx = 1 THEN Fail ELSE top.cur)
             ELSE ContinueMatch(stack, [top EXCEPT !.cur = r[1], !.idx = 2])

\* QuestionNode.match, one step.
QuestionNodeStep(stack, r) ==
    LET top == stack[Len(stack)]
    IN  IF r = <<>>
        THEN CallMatch(stack, top.node.kids[1], top.pos)
        ELSE IF r[1] # Fail
             THEN ReturnMatch(stack, r[1])
             ELSE ReturnMatch(stack, top.pos)

Matching(kind) == pc = "match" /\ mstack # <<>> /\ Top.node.kind = kind

Apply(step) ==
    /\ mstack' = step.mstack
    /\ ret' = step.ret
    /\ UNCHANGED <<pattern, text, result, pc, calls, position, pstack, ast>>

MatchCharNode ==
    /\ Matching("Char")
    /\ LET outcome == CharNodeMatch(Top.node.char, text, Top.pos)
       IN  IF outcome.raised
           THEN RaiseIndexError
           ELSE Apply(ReturnMatch(mstack, outcome.pos))

MatchDotNode ==
    /\ Matching("Dot")
    /\ Apply(ReturnMatch(mstack, DotNodeMatch(text, Top.pos).pos))

MatchStartAnchorNode ==
    /\ Matching("Start")
    /\ Apply(ReturnMatch(mstack, StartAnchorNodeMatch(text, Top.pos).pos))

MatchEndAnchorNode ==
    /\ Matching("End")
    /\ Apply(ReturnMatch(mstack, EndAnchorNodeMatch(text, Top.pos).pos))

MatchSequenceNode == Matching("Seq") /\ Apply(SequenceNodeStep(mstack, ret))

MatchStarNode == Matching("Star") /\ Apply(StarNodeStep(mstack, ret))

MatchPlusNode == Matching("Plus") /\ Apply(PlusNodeStep(mstack, ret))

MatchQuestionNode == Matching("Question") /\ Apply(QuestionNodeStep(mstack, ret))

\* ast.match(text, 0) has returned: RegexEngine.match compares it with
\* len(text) and returns.
EngineReturn ==
    /\ pc = "match"
    /\ mstack = <<>>
    /\ ret # <<>>
    /\ result' = (ret[1] = Len(text))
    /\ pc' = "done"
    /\ UNCHANGED <<pattern, text, calls, position, pstack, ast, mstack, ret>>

\* The steps of a call in progress.
Execute ==
    \/ ParseEnd
    \/ ParseTerminator
    \/ ParseGroupOpen
    \/ ParseNode
    \/ MatchCharNode
    \/ MatchDotNode
    \/ MatchStartAnchorNode
    \/ MatchEndAnchorNode
    \/ MatchSequenceNode
    \/ MatchStarNode
    \/ MatchPlusNode
    \/ MatchQuestionNode
    \/ EngineReturn

StepNext == (\E t \in StepTexts : EngineMatch(t)) \/ Execute

StepSpec == StepInit /\ [][StepNext]_vars

\* A call that has begun runs on: the program is one sequential thread.
FairStepSpec == StepSpec /\ WF_vars(Execute)

(***************************************************************************)
(* Properties of the step-by-step engine.                                  *)
(***************************************************************************)
InCall == pc \in {"parse", "match"}

\* C8: no call reaches an error state or gets stuck: the cursor stays inside
\* the pattern and every match position inside the text, parse returns a
\* Sequence, match returns a boolean, and an unclosed group runs to the end
\* of the pattern, so that (w matches exactly the text w.
C8_Total ==
    /\ pc # "error"
    /\ position \in 0..Len(pattern)
    /\ \A i \in 1..Len(mstack) :
           mstack[i].pos \in 0..Len(text) /\ mstack[i].cur \in 0..Len(text)
    /\ InCall => ENABLED Execute
    /\ pc \in {"match", "done"} => ast.kind = "Seq"
    /\ Done => result \in BOOLEAN
    /\ (/\ Done
        /\ Len(pattern) >= 1
        /\ pattern[1] = "("
        /\ IsLiteral(Tail(pattern))) => (result = (text = Tail(pattern)))

C8_Witness ==
    /\ Done
    /\ pattern = <<"(", "a", "b">>
    /\ text = <<"a", "b">>
    /\ result = TRUE

\* C9: whatever calls came before, a call returns what a fresh engine with
\* the same pattern returns for its text; the stored pattern never changes,
\* every call starts with its own cursor at 0 and its own empty root
\* sequence, and matching leaves the AST as the parser built it.
C9_CallsIndependent ==
    /\ [](Done => (result = RegexEngineMatch(pattern, text).value))
    /\ [](pc # "error")
    /\ [][/\ pattern' = pattern
          /\ (pc # "parse" /\ pc' = "parse") => (position' = 0 /\ pstack' = <<<<>>>>)
          /\ (pc = "match") => (ast' = ast)]_vars

C9_Witness ==
    /\ Done
    /\ calls = 2
    /\ pattern = <<"a", "*", "b">>
    /\ text = <<"a", "b">>
    /\ result = TRUE

\* Every Star and Plus node of a tree wraps a CharNode.
RECURSIVE RepeatsOnlyChars(_)
RepeatsOnlyChars(node) ==
    CASE node.kind \in {"Star", "Plus"} -> node.kids[1].kind = "Char"
      [] node.kind = "Seq" ->
             \A i \in 1..Len(node.kids) : RepeatsOnlyChars(node.kids[i])
      [] OTHER -> TRUE

\* C10: every call terminates.  Each parser step short of the end of the
\* pattern moves the cursor forward, and the cursor never passes the end;
\* the parser wraps only CharNodes in Star and Plus; a successful match of
\* the child of a Star or Plus returns a position beyond the loop's current
\* one and within the text.
C10_Terminates ==
    /\ [][(pc = "parse" /\ position < Len(pattern)) => (position' >= position + 1)]_vars
    /\ [](/\ position <= Len(pattern)
          /\ RepeatsOnlyChars(ast)
          /\ \A i \in 1..Len(pstack) : RepeatsOnlyChars(SequenceNode(pstack[i]))
          /\ (/\ pc = "match"
              /\ mstack # <<>>
              /\ Top.node.kind \in {"Star", "Plus"}
              /\ ret # <<>>
              /\ ret[1] # Fail) => (ret[1] > Top.cur /\ ret[1] <= Len(text)))
    /\ InCall ~> Done

C10_Witness ==
    /\ pc = "match"
    /\ mstack # <<>>
    /\ Top.node.kind = "Star"
    /\ Top.cur = 1
    /\ ret = <<2>>

====
